---- MODULE Spec2Model ----
(***************************************************************************)
(* Model of the merge orchestration of Merge-excel:                        *)
(*   internal/core/merger.go   Merger.MergeFiles, mergeSheetWithWriter and *)
(*                             the row filters                             *)
(*   internal/excel  Reader.GetDataRows, Writer.WriteRow/WriteRows         *)
(*                                                                         *)
(* A Go string is a sequence of one-character strings, so that TrimSpace,  *)
(* ToLower and Contains are computed and not assumed.  The Cyrillic        *)
(* literals of the source are transliterated: the sheet name of the Ozon   *)
(* template is written "Shablon" and the marker of the article column      *)
(* "artikul".                                                              *)
(***************************************************************************)
EXTENDS Integers, Sequences, FiniteSets, TLC

VARIABLES
    baseFilePath,      \* argument of MergeFiles
    filePaths,         \* argument of MergeFiles: the additional files
    sheetConfigs,      \* argument of MergeFiles: sheet name -> SheetConfig
    fs,                \* the files on disk, as far as the run has observed them
    templateArticles,  \* Merger.templateArticles
    progress,          \* the calls of notifyProgress, in order
    pc,                \* position of the call: start, sheets, files, rows, done
    result,            \* local result of MergeFiles
    ret,               \* <<>> while running, then <<[result, err]>>
    writer,            \* <<>> before NewWriter, then <<[sheets, closed]>>
    totalFiles,        \* local of MergeFiles
    totalOperations,   \* local of MergeFiles
    currentOperation,  \* local of MergeFiles
    sheetName,         \* parameter of mergeSheetWithWriter
    baseRows,          \* local of mergeSheetWithWriter
    currentRow,        \* local of mergeSheetWithWriter
    fileIdx,           \* loop index i of mergeSheetWithWriter (1-based)
    warnings,          \* local of mergeSheetWithWriter
    rowsMerged,        \* local of mergeSheetWithWriter
    dataRows,          \* local of mergeSheetWithWriter, as read by GetDataRows
    openReaders,       \* the excel.Reader handles that are open
    fileLog,           \* history: one entry per (sheet, file) iteration
    call,              \* a call of one row filter on its own: function and arguments
    out,               \* the values that call has returned, in order
    cb,                \* Merger.mu and Merger.progressCallback, with a thread that
                       \* registers and a thread that notifies
    gui                \* MergeTab: its fields, its goroutines and their channels

vars == <<baseFilePath, filePaths, sheetConfigs, fs, templateArticles, progress,
          pc, result, ret, writer, totalFiles, totalOperations,
          currentOperation, sheetName, baseRows, currentRow, fileIdx, warnings,
          rowsMerged, dataRows, openReaders, fileLog, call, out, cb, gui>>

(***************************************************************************)
(* Bounds of the model.                                                    *)
(***************************************************************************)
MaxFiles == 2          \* at most this many additional files
MaxRows == 3           \* at most this many rows in a batch handed to a filter alone
MaxNotifications == 3  \* at most this many calls of notifyProgress beside a registration
MaxMerges == 2         \* at most this many merges started from the merge tab
MaxUpdates == 11       \* at most this many progress updates of one merge
FewUpdates == 2        \* the same, where several merges follow one another
MaxCells == 3          \* at most this many cells in the second row of a sheet

(***************************************************************************)
(* Strings.                                                                *)
(***************************************************************************)
Min(S) == CHOOSE x \in S : \A y \in S : x <= y
Max(S) == CHOOSE x \in S : \A y \in S : x >= y

IsSpace(c) == c \in {" ", "\t"}

LowerOf == [c \in {"A", "B", "S", "K"} |->
              CASE c = "A" -> "a" [] c = "B" -> "b" [] c = "S" -> "s" [] c = "K" -> "k"]

ToLower(s) == [i \in 1..Len(s) |-> IF s[i] \in DOMAIN LowerOf THEN LowerOf[s[i]] ELSE s[i]]

RECURSIVE TrimLeft(_)
TrimLeft(s) == IF Len(s) > 0 /\ IsSpace(s[1]) THEN TrimLeft(Tail(s)) ELSE s

RECURSIVE TrimRight(_)
TrimRight(s) ==
    IF Len(s) > 0 /\ IsSpace(s[Len(s)]) THEN TrimRight(SubSeq(s, 1, Len(s) - 1)) ELSE s

TrimSpace(s) == TrimRight(TrimLeft(s))

Contains(s, sub) == \E i \in 0..(Len(s) - Len(sub)) : SubSeq(s, i + 1, i + Len(sub)) = sub

TemplateSheet == "Shablon"
ArticleMarker == <<"a", "r", "t", "i", "k", "u", "l">>

\* "Brend v odezhde i obuvi*", the cell FindBrandColumnInFirstRows looks for
cBrandHeader ==
    <<"B", "r", "e", "n", "d", " ", "v", " ", "o", "d", "e", "z", "h", "d", "e", " ", "i",
      " ", "o", "b", "u", "v", "i", "*">>

(***************************************************************************)
(* The row filters of merger.go.                                           *)
(***************************************************************************)
\* mutant of filterEmptyRows: a cell holding only blanks counts as empty
filterEmptyRowsTrimmed(rows) ==
    SelectSeq(rows, LAMBDA row : \E j \in 1..Len(row) : TrimSpace(row[j]) # <<>>)

\* mutant of filterEmptyRows: the rows are removed in place, and the row after
\* a removed one is not examined
RECURSIVE filterEmptyRowsInPlace(_)
filterEmptyRowsInPlace(rows) ==
    IF Len(rows) = 0
    THEN <<>>
    ELSE IF \E j \in 1..Len(Head(rows)) : Head(rows)[j] # <<>>
    THEN <<Head(rows)>> \o filterEmptyRowsInPlace(Tail(rows))
    ELSE IF Len(rows) = 1
    THEN <<>>
    ELSE <<rows[2]>> \o filterEmptyRowsInPlace(SubSeq(rows, 3, Len(rows)))

filterEmptyRows(rows) ==
    SelectSeq(rows, LAMBDA row : \E j \in 1..Len(row) : row[j] # <<>>)

\* mutant of filterRowsByColumnValue: an empty allow-list is not let through
filterRowsByColumnValueNoEmptyCheck(rows, columnIndex, filterValues) ==
    IF columnIndex < 0
    THEN rows
    ELSE LET normalizedFilterValues ==
                 {ToLower(TrimSpace(filterValues[i])) : i \in 1..Len(filterValues)}
         IN  SelectSeq(rows, LAMBDA row :
                 /\ columnIndex < Len(row)
                 /\ ToLower(TrimSpace(row[columnIndex + 1])) \in normalizedFilterValues)

\* mutant of filterRowsByColumnValue: the comparison is case-sensitive
filterRowsByColumnValueExactCase(rows, columnIndex, filterValues) ==
    IF columnIndex < 0 \/ Len(filterValues) = 0
    THEN rows
    ELSE LET normalizedFilterValues ==
                 {TrimSpace(filterValues[i]) : i \in 1..Len(filterValues)}
         IN  SelectSeq(rows, LAMBDA row :
                 /\ columnIndex < Len(row)
                 /\ TrimSpace(row[columnIndex + 1]) \in normalizedFilterValues)

filterRowsByColumnValue(rows, columnIndex, filterValues) ==
    IF columnIndex < 0 \/ Len(filterValues) = 0
    THEN rows
    ELSE LET normalizedFilterValues ==
                 {ToLower(TrimSpace(filterValues[i])) : i \in 1..Len(filterValues)}
         IN  SelectSeq(rows, LAMBDA row :
                 /\ columnIndex < Len(row)
                 /\ ToLower(TrimSpace(row[columnIndex + 1])) \in normalizedFilterValues)

\* mutant of articleColIndex: the search does not stop at the first match
articleColIndexLast(headerRow) ==
    LET hits == {i \in 1..Len(headerRow) : Contains(ToLower(headerRow[i]), ArticleMarker)}
    IN  IF hits = {} THEN -1 ELSE Max(hits) - 1

\* 0-based index of the first header containing the marker, -1 when none does
articleColIndex(headerRow) ==
    LET hits == {i \in 1..Len(headerRow) : Contains(ToLower(headerRow[i]), ArticleMarker)}
    IN  IF hits = {} THEN -1 ELSE Min(hits) - 1

extractArticlesFromRows(headerRow, rows) ==
    LET col == articleColIndex(headerRow)
    IN  IF col = -1
        THEN {}
        ELSE {TrimSpace(rows[i][col + 1]) :
                 i \in {j \in 1..Len(rows) : col < Len(rows[j])}} \ {<<>>}

\* mutant of filterRowsByArticles: the value of the key column is not trimmed
filterRowsByArticlesUntrimmed(headerRow, rows, articles) ==
    IF articles = {}
    THEN <<>>
    ELSE LET col == articleColIndex(headerRow)
         IN  IF col = -1
             THEN <<>>
             ELSE SelectSeq(rows, LAMBDA row : col < Len(row) /\ row[col + 1] \in articles)

filterRowsByArticles(headerRow, rows, articles) ==
    IF articles = {}
    THEN <<>>
    ELSE LET col == articleColIndex(headerRow)
         IN  IF col = -1
             THEN <<>>
             ELSE SelectSeq(rows, LAMBDA row :
                      col < Len(row) /\ TrimSpace(row[col + 1]) \in articles)

(***************************************************************************)
(* excel.Reader and excel.Writer.                                          *)
(***************************************************************************)
\* mutant of GetDataRows: the slice starts one row early, at the header row
GetDataRowsFromHeader(rows, headerRowNum) ==
    IF Len(rows) <= headerRowNum THEN <<>> ELSE SubSeq(rows, headerRowNum, Len(rows))

GetDataRows(rows, headerRowNum) ==
    IF Len(rows) <= headerRowNum THEN <<>> ELSE SubSeq(rows, headerRowNum + 1, Len(rows))

\* part_002 81-118: Reader.GetHeaderRow, of a sheet that exists and is read
GetHeaderRow(rows, headerRowNum) ==
    IF headerRowNum < 1 \/ Len(rows) < headerRowNum
    THEN [headers |-> <<>>, err |-> TRUE]
    ELSE LET filteredHeaders == SelectSeq(rows[headerRowNum], LAMBDA h : h # <<>>)
         IN  [headers |-> filteredHeaders, err |-> Len(filteredHeaders) = 0]

\* analyzer.go 67-94: FindBrandColumnInFirstRows, of a sheet that exists and is read
FindBrandColumnInFirstRows(rows) ==
    LET row2 == GetHeaderRow(rows, 2)
        found == {i \in 1..Len(row2.headers) : row2.headers[i] = cBrandHeader}
    IN  IF row2.err THEN [index |-> -1, err |-> TRUE]
        ELSE IF found # {} THEN [index |-> Min(found) - 1, err |-> FALSE]
        ELSE [index |-> -1, err |-> FALSE]

\* a sheet of the output workbook: row number -> cells of the row
WriteRow(sheet, rowNum, data) ==
    IF Len(data) = 0
    THEN sheet
    ELSE LET old == IF rowNum \in DOMAIN sheet THEN sheet[rowNum] ELSE <<>>
             new == [j \in 1..Max({Len(old), Len(data)}) |->
                        IF j <= Len(data) THEN data[j] ELSE old[j]]
         IN  [r \in DOMAIN sheet \cup {rowNum} |-> IF r = rowNum THEN new ELSE sheet[r]]

RECURSIVE WriteRows(_, _, _)
WriteRows(sheet, startRow, rows) ==
    IF Len(rows) = 0
    THEN sheet
    ELSE WriteRows(WriteRow(sheet, startRow, Head(rows)), startRow + 1, Tail(rows))

\* excelize.NewFile() starts with the sheet "Sheet1"
NewWriter == [sheets |-> [n \in {"Sheet1"} |-> <<>>], closed |-> FALSE]

CreateSheet(w, name) ==
    [w EXCEPT !.sheets = [n \in DOMAIN w.sheets \cup {name} |->
                             IF n \in DOMAIN w.sheets THEN w.sheets[n] ELSE <<>>]]

WriterWriteRows(w, name, startRow, rows) ==
    [w EXCEPT !.sheets[name] = WriteRows(w.sheets[name], startRow, rows)]

WriterClose(w) == [w EXCEPT !.closed = TRUE]

(***************************************************************************)
(* The inputs of a run.                                                    *)
(***************************************************************************)
BaseFile == "base.xlsx"
AllFilePaths == <<"f1.xlsx", "f2.xlsx", "f3.xlsx">>
Files == {BaseFile} \cup {AllFilePaths[i] : i \in 1..Len(AllFilePaths)}
SheetNames == {TemplateSheet, "Data"}

cArticle == <<"A", "r", "t", "i", "k", "u", "l", "*">>
cBrand == <<"B", "r", "e", "n", "d">>
cK1 == <<"k", "1">>
cK2 == <<"k", "2">>
cK2sp == <<" ", "k", "2", " ">>
cK3 == <<"k", "3">>
cSh == <<"S", "h">>
cShSp == <<"s", "h", " ">>
cNo == <<"n", "o">>

\* the sheets a file may hold: rows of cells, header region included.  The
\* base file holds data rows of its own, or the header only; an additional file
\* holds a key with spaces, a blank row, a short row and a row of blanks only.
RowsA == << <<cArticle, cBrand>>, <<cK1, cSh>>, <<<<>>, <<>>>>, <<cK2, cNo>> >>
RowsB == << <<cArticle, cBrand>>, <<cK2sp, cShSp>>, <<<<>>, <<>>>>, <<cK3>>, <<<<>>, <<" ">>>> >>
RowsH == << <<cArticle, cBrand>> >>
SheetContents(f) == IF f = BaseFile THEN {RowsA, RowsH} ELSE {RowsB}

FilterChoices == {[c |-> -1, v |-> <<>>], [c |-> 1, v |-> <<cSh>>]}

DisabledConfig ==
    [Enabled |-> FALSE, HeaderRow |-> 1, FilterColumn |-> -1, FilterValues |-> <<>>,
     UseTemplateArticles |-> FALSE]

\* the header in the first row, or below one row of decoration; the column
\* filter is tried with the header in the first row only
ConfigChoices ==
    {DisabledConfig} \cup
    {c \in {[Enabled |-> TRUE, HeaderRow |-> h, FilterColumn |-> f.c,
             FilterValues |-> f.v, UseTemplateArticles |-> u] :
                h \in {1, 2}, f \in FilterChoices, u \in BOOLEAN} :
        c.FilterColumn >= 0 => c.HeaderRow = 1}

UnknownSheet == [st |-> "unknown", rows |-> <<>>]
UnknownFile == [open |-> "unknown", sheets |-> [s \in SheetNames |-> UnknownSheet]]

\* what opening file f may yield: the observed answer, or any if not yet observed
OpenOutcomes(f) == IF fs[f].open = "unknown" THEN {"ok", "fail"} ELSE {fs[f].open}

SheetOutcomes(f, s) ==
    IF fs[f].sheets[s].st = "unknown"
    THEN {[st |-> "absent", rows |-> <<>>], [st |-> "unreadable", rows |-> <<>>]}
         \cup {[st |-> "ok", rows |-> r] : r \in SheetContents(f)}
    ELSE {fs[f].sheets[s]}

Observe(f, o, s, sh) ==
    [fs EXCEPT ![f] = [open |-> o,
                       sheets |-> IF o = "ok" THEN [@.sheets EXCEPT ![s] = sh] ELSE @.sheets]]

(***************************************************************************)
(* The arguments of a row filter called on its own, as the tests of        *)
(* merger_test.go call them.                                               *)
(***************************************************************************)
cArtLow == <<"a", "r", "t", "i", "k", "u", "l">>
cBlank == <<" ">>

\* a row of no cells, a row of empty cells, a row whose only content is a
\* blank, rows with a key and a brand, a row too short for the second column
FilterRows ==
    {<<>>, <<<<>>, <<>>>>, <<<<>>, cBlank>>, <<cK1, cSh>>, <<cK2sp, cShSp>>, <<cK3>>,
     <<cK2, cNo>>}

RECURSIVE BatchesOf(_)
BatchesOf(n) ==
    IF n = 0
    THEN {<<>>}
    ELSE BatchesOf(n - 1) \cup
         {Append(b, r) : b \in {x \in BatchesOf(n - 1) : Len(x) = n - 1}, r \in FilterRows}

\* no header row, no key column, the key column second, two key columns
FilterHeaders == {<<>>, <<cBrand>>, <<cBrand, cArticle>>, <<cArticle, cArtLow>>}
ArticleSets == {{}, {cK2}, {cK1, cK3}, {cSh, cK2}}
FilterColumns == {-1, 0, 1, 2}
FilterValueLists == {<<>>, <<cSh>>, <<cShSp, cNo>>}

\* the rows of up to n cells, each empty, the brand header or another header,
\* as GetRows gives them: without empty cells at the end
RECURSIVE RowsOfCells(_)
RowsOfCells(n) ==
    IF n = 0
    THEN {<<>>}
    ELSE RowsOfCells(n - 1) \cup
         {r \o <<c>> : r \in {x \in RowsOfCells(n - 1) : Len(x) = n - 1} \cup
                                {x \o <<<<>>>> : x \in {y \in RowsOfCells(n - 1) : Len(y) = n - 2}},
                       c \in {cBrandHeader, cBrand}}

FilterCall(fn, rows, header, articles, col, values) ==
    [fn |-> fn, rows |-> rows, header |-> header, articles |-> articles, col |-> col,
     values |-> values]

NoCall == FilterCall("none", <<>>, <<>>, {}, -1, <<>>)

\* the configuration of a sheet whose column filter is the one of the call
ConfigOfCall(c) ==
    [Enabled |-> TRUE, HeaderRow |-> 1, FilterColumn |-> c.col, FilterValues |-> c.values,
     UseTemplateArticles |-> FALSE]

(***************************************************************************)
(* Pieces of MergeFiles and mergeSheetWithWriter.                          *)
(***************************************************************************)
NilResult == <<>>
\* mutant of FatalReturn: the result gathered so far is returned with the error
FatalReturnPartial(r, e) == [result |-> <<r>>, err |-> <<e>>]
FatalReturn(r, e) == [result |-> NilResult, err |-> <<e>>]
OkReturn(r) == [result |-> <<r>>, err |-> <<>>]

EmptyResult ==
    [SheetStats |-> <<>>, Warnings |-> <<>>, TotalRows |-> 0, ProcessedSheets |-> 0,
     ProcessedFiles |-> 0]

TotalFiles(paths) == 1 + Len(paths)
TotalOperations(configs, paths) == Cardinality(DOMAIN configs) * TotalFiles(paths)

NoSheetsToProcess(configs) == Cardinality(DOMAIN configs) = 0

TemplatePending ==
    /\ TemplateSheet \in DOMAIN sheetConfigs
    /\ sheetConfigs[TemplateSheet].Enabled
    /\ TemplateSheet \notin DOMAIN result.SheetStats

\* mutant of NextSheets: one loop over the map, the template sheet not first
NextSheetsInMapOrder ==
    {s \in DOMAIN sheetConfigs : sheetConfigs[s].Enabled /\ s \notin DOMAIN result.SheetStats}

\* mutant of NextSheets: the general loop does not look at Enabled
NextSheetsEnabledOrNot ==
    IF TemplatePending
    THEN {TemplateSheet}
    ELSE {s \in DOMAIN sheetConfigs \ {TemplateSheet} : s \notin DOMAIN result.SheetStats}

\* the sheets the loops of MergeFiles may hand to mergeSheetWithWriter next
NextSheets ==
    IF TemplatePending
    THEN {TemplateSheet}
    ELSE {s \in DOMAIN sheetConfigs \ {TemplateSheet} :
             sheetConfigs[s].Enabled /\ s \notin DOMAIN result.SheetStats}

AllFiles == <<baseFilePath>> \o filePaths

\* mutant of NextOperation: the counter is the index of the file in its sheet
NextOperationPerSheet(op) == fileIdx
\* merger.go 292: *currentOp++
NextOperation(op) == op + 1

CopiesHeader(config, rows) == config.HeaderRow > 0 /\ Len(rows) >= config.HeaderRow
HeaderRows(config, rows) == SubSeq(rows, 1, config.HeaderRow)
HeaderOf(config, rows) == IF CopiesHeader(config, rows) THEN rows[config.HeaderRow] ELSE <<>>
FirstDataRow(config) == config.HeaderRow + 1
\* mutant of AdvanceRow: the row cursor is not advanced
AdvanceRowNot(row, n) == row
AdvanceRow(row, n) == row + n

\* what mergeSheetWithWriter does with a file: "openfail", "nosheet", "readfail"
\* are skipped with a warning, "read" goes on to the filters
FileOutcome(o, sh) ==
    IF o = "fail" THEN "openfail"
    ELSE IF sh.st = "absent" THEN "nosheet"
    ELSE IF sh.st = "unreadable" THEN "readfail"
    ELSE "read"

\* mutant of FileFailurePolicy: a file whose rows cannot be read ends the run
FileFailurePolicyAbort(outcome) == IF outcome = "readfail" THEN "abort" ELSE "continue"
FileFailurePolicy(outcome) == "continue"

Warning(outcome, f, s) ==
    [kind |-> outcome, file |-> f, sheet |-> IF outcome = "nosheet" THEN s ELSE ""]

UsesColumnFilter(config) == config.FilterColumn >= 0 /\ Len(config.FilterValues) > 0
ExtractsArticles(s, rows) == s = TemplateSheet /\ Len(rows) > 0
UsesArticleFilter(config, articles, rows) ==
    config.UseTemplateArticles /\ Cardinality(articles) > 0 /\ Len(rows) > 0

AfterColumnFilter(config, rows) ==
    IF UsesColumnFilter(config)
    THEN filterRowsByColumnValue(filterEmptyRows(rows), config.FilterColumn, config.FilterValues)
    ELSE filterEmptyRows(rows)

\* mutant of ArticlesAfter: the keys of the file replace those gathered before
ArticlesAfterReplace(s, config, header, rows, articles) ==
    IF ExtractsArticles(s, AfterColumnFilter(config, rows))
    THEN extractArticlesFromRows(header, AfterColumnFilter(config, rows))
    ELSE articles

ArticlesAfter(s, config, header, rows, articles) ==
    IF ExtractsArticles(s, AfterColumnFilter(config, rows))
    THEN articles \cup extractArticlesFromRows(header, AfterColumnFilter(config, rows))
    ELSE articles

\* mutant of AfterArticleFilter: the key filter is given the rows as read
AfterArticleFilterOfRowsRead(config, header, rows, articles) ==
    IF UsesArticleFilter(config, articles, AfterColumnFilter(config, rows))
    THEN filterRowsByArticles(header, rows, articles)
    ELSE AfterColumnFilter(config, rows)

AfterArticleFilter(config, header, rows, articles) ==
    IF UsesArticleFilter(config, articles, AfterColumnFilter(config, rows))
    THEN filterRowsByArticles(header, AfterColumnFilter(config, rows), articles)
    ELSE AfterColumnFilter(config, rows)

\* mutant of MergedCount: the count of the last file replaces the sum
MergedCountLast(merged, kept) == Len(kept)
\* merger.go 412: rowsMerged += len(dataRows)
MergedCount(merged, kept) == merged + Len(kept)

SheetStat(merged, files) == [RowsMerged |-> merged, FilesCount |-> files]
\* mutant of AppendWarnings: the warnings of the sheet replace those gathered
AppendWarningsReplace(all, new) == new
AppendWarnings(all, new) == all \o new

(***************************************************************************)
(* The progress callback of the Merger (merger.go 45-61) and the window of *)
(* the merge tab (merge_tab.go 123-266), while nothing uses them.          *)
(***************************************************************************)
\* slot: the registered callback; mu: who holds the lock; setPc, notePc: where
\* SetProgressCallback and notifyProgress stand; local: the copy notifyProgress
\* has taken; running: the callback being executed; notified: the calls of
\* notifyProgress begun; late: the callbacks entered after the setter returned
NoThreads ==
    [slot |-> "none", mu |-> "free", setPc |-> "idle", notePc |-> "idle", local |-> "none",
     running |-> "none", notified |-> 0, late |-> {}]

NoGui == <<>>

(***************************************************************************)
(* The state after NewMerger, with the arguments of the call chosen.       *)
(***************************************************************************)
BeforeMergeFiles ==
    /\ baseFilePath \in {"", BaseFile}
    /\ filePaths \in {SubSeq(AllFilePaths, 1, n) : n \in 0..Min({MaxFiles, Len(AllFilePaths)})}
    /\ sheetConfigs \in UNION {[S -> ConfigChoices] : S \in SUBSET SheetNames}
    /\ fs = [f \in Files |-> UnknownFile]
    /\ progress = <<>>
    /\ pc = "start"
    /\ result = EmptyResult
    /\ ret = <<>>
    /\ writer = <<>>
    /\ totalFiles = 0
    /\ totalOperations = 0
    /\ currentOperation = 0
    /\ sheetName = ""
    /\ baseRows = <<>>
    /\ currentRow = 0
    /\ fileIdx = 0
    /\ warnings = <<>>
    /\ rowsMerged = 0
    /\ dataRows = <<>>
    /\ openReaders = {}
    /\ fileLog = <<>>
    /\ call = NoCall
    /\ out = <<>>
    /\ cb = NoThreads
    /\ gui = NoGui

Init ==
    /\ templateArticles = {}
    /\ BeforeMergeFiles

\* merger.go 259 / 298: the handles excel.NewReader gives
BaseReader == [file |-> baseFilePath, role |-> "base"]
FileReader(f) == [file |-> f, role |-> "file"]

\* a reader.Close() that leaves the handle open
CloseReaderLeak(readers, r) == readers

\* part_002 44-55: Reader.Close
CloseReader(readers, r) == readers \ {r}

\* the readers left when each one that is open has been closed
CloseEach(readers) == {r \in readers : r \in CloseReader(readers, r)}

sheetLocals == <<sheetName, baseRows, currentRow, fileIdx, warnings, rowsMerged, dataRows>>
inputs == <<baseFilePath, filePaths, sheetConfigs>>
filterCall == <<call, out>>
threads == <<cb, gui>>
counters == <<totalFiles, totalOperations>>

\* the map of an earlier call is kept
NewArticlesReused(articles) == articles

\* merger.go 108: m.templateArticles = make(map[string]bool)
NewArticles(articles) == {}

\* merger.go 83-114: the checks of the arguments and the set-up of the run
MergeFilesStart ==
    /\ pc = "start"
    /\ UNCHANGED <<filterCall, threads>>
    /\ UNCHANGED <<inputs, fs, progress, result, currentOperation, sheetLocals,
                   openReaders, fileLog>>
    /\ IF baseFilePath = ""
       THEN /\ ret' = <<FatalReturn(result, "base file path is empty")>>
            /\ pc' = "done"
            /\ UNCHANGED <<writer, templateArticles, counters>>
       ELSE IF NoSheetsToProcess(sheetConfigs)
       THEN /\ ret' = <<FatalReturn(result, "no sheets to process")>>
            /\ pc' = "done"
            /\ UNCHANGED <<writer, templateArticles, counters>>
       ELSE /\ writer' = <<NewWriter>>
            /\ templateArticles' = NewArticles(templateArticles)
            /\ totalFiles' = TotalFiles(filePaths)
            /\ totalOperations' = TotalOperations(sheetConfigs, filePaths)
            /\ pc' = "sheets"
            /\ ret' = ret

\* a non-nil error of mergeSheetWithWriter: deferred baseReader.Close(), then
\* merger.go 122-125 / 152-155
Fatal(w, e) ==
    /\ ret' = <<FatalReturn(result, e)>>
    /\ writer' = <<WriterClose(w)>>
    /\ openReaders' = CloseEach(openReaders)
    /\ pc' = "done"

\* merger.go 119-121 / 149-151 and 250-288: one sheet is begun
StartSheet(s) ==
    /\ pc = "sheets"
    /\ s \in NextSheets
    /\ sheetName' = s
    /\ UNCHANGED <<filterCall, threads>>
    /\ UNCHANGED <<inputs, templateArticles, progress, result, counters,
                   currentOperation, dataRows, fileLog>>
    /\ warnings' = <<>>
    /\ rowsMerged' = 0
    /\ \E createOk \in BOOLEAN, o \in OpenOutcomes(baseFilePath),
          sh \in SheetOutcomes(baseFilePath, s), writeOk \in BOOLEAN :
        LET config == sheetConfigs[s]
            created == CreateSheet(writer[1], s)
        IN  IF ~createOk
            THEN /\ Fatal(writer[1], "cannot create sheet")
                 /\ UNCHANGED <<fs, baseRows, currentRow, fileIdx>>
            ELSE IF o = "fail"
            THEN /\ Fatal(created, "cannot open base file")
                 /\ fs' = Observe(baseFilePath, o, s, sh)
                 /\ UNCHANGED <<baseRows, currentRow, fileIdx>>
            ELSE IF sh.st = "absent"
            THEN /\ Fatal(created, "sheet not found in base file")
                 /\ fs' = Observe(baseFilePath, o, s, sh)
                 /\ UNCHANGED <<baseRows, currentRow, fileIdx>>
            ELSE IF sh.st = "unreadable"
            THEN /\ Fatal(created, "cannot read base file")
                 /\ fs' = Observe(baseFilePath, o, s, sh)
                 /\ UNCHANGED <<baseRows, currentRow, fileIdx>>
            ELSE IF CopiesHeader(config, sh.rows) /\ ~writeOk
            THEN /\ Fatal(created, "cannot write headers")
                 /\ fs' = Observe(baseFilePath, o, s, sh)
                 /\ UNCHANGED <<baseRows, currentRow, fileIdx>>
            ELSE /\ fs' = Observe(baseFilePath, o, s, sh)
                 /\ baseRows' = sh.rows
                 /\ writer' = <<IF CopiesHeader(config, sh.rows)
                                THEN WriterWriteRows(created, s, 1, HeaderRows(config, sh.rows))
                                ELSE created>>
                 /\ currentRow' = FirstDataRow(config)
                 /\ fileIdx' = 1
                 /\ openReaders' = {BaseReader}
                 /\ pc' = "files"
                 /\ ret' = ret

\* merger.go 291-324: the next file is announced, opened and read
OpenFile ==
    /\ pc = "files"
    /\ fileIdx <= Len(AllFiles)
    /\ UNCHANGED <<filterCall, threads>>
    /\ UNCHANGED <<inputs, templateArticles, result, counters, sheetName, baseRows,
                   currentRow, rowsMerged>>
    /\ currentOperation' = NextOperation(currentOperation)
    /\ LET f == AllFiles[fileIdx]
       IN  /\ progress' = Append(progress,
                             [current |-> currentOperation', total |-> totalOperations,
                              file |-> f, sheet |-> sheetName, index |-> fileIdx,
                              count |-> Len(AllFiles)])
           /\ \E o \in OpenOutcomes(f), sh \in SheetOutcomes(f, sheetName) :
                LET outcome == FileOutcome(o, sh)
                IN  /\ fs' = Observe(f, o, sheetName, sh)
                    /\ IF outcome = "read"
                       THEN /\ dataRows' = GetDataRows(sh.rows, sheetConfigs[sheetName].HeaderRow)
                            /\ openReaders' = openReaders \cup {FileReader(f)}
                            /\ pc' = "rows"
                            /\ UNCHANGED <<warnings, fileIdx, fileLog, ret, writer>>
                       ELSE IF FileFailurePolicy(outcome) = "continue"
                       THEN /\ warnings' = Append(warnings, Warning(outcome, f, sheetName))
                            /\ fileLog' = Append(fileLog,
                                   [sheet |-> sheetName, file |-> f, outcome |-> outcome,
                                    rows |-> <<>>, start |-> currentRow])
                            /\ fileIdx' = fileIdx + 1
                            /\ UNCHANGED <<dataRows, openReaders, pc, ret, writer>>
                       ELSE /\ Fatal(writer[1], "cannot process file")
                            /\ UNCHANGED <<warnings, fileLog, fileIdx, dataRows>>

\* merger.go 326-422: the rows read are filtered and written, the file is closed
MergeRows ==
    /\ pc = "rows"
    /\ UNCHANGED <<filterCall, threads>>
    /\ UNCHANGED <<inputs, fs, progress, result, counters, currentOperation, sheetName,
                   baseRows, warnings>>
    /\ LET f == AllFiles[fileIdx]
           config == sheetConfigs[sheetName]
           header == HeaderOf(config, baseRows)
           articles == ArticlesAfter(sheetName, config, header, dataRows, templateArticles)
           kept == AfterArticleFilter(config, header, dataRows, articles)
       IN  /\ templateArticles' = articles
           /\ dataRows' = <<>>
           /\ \E writeOk \in BOOLEAN :
                IF Len(kept) > 0 /\ ~writeOk
                THEN /\ Fatal(writer[1], "cannot write data")
                     /\ UNCHANGED <<currentRow, rowsMerged, fileIdx, fileLog>>
                ELSE /\ writer' = <<IF Len(kept) > 0
                                    THEN WriterWriteRows(writer[1], sheetName, currentRow, kept)
                                    ELSE writer[1]>>
                     /\ currentRow' = IF Len(kept) > 0 THEN AdvanceRow(currentRow, Len(kept))
                                      ELSE currentRow
                     /\ rowsMerged' = MergedCount(rowsMerged, kept)
                     /\ fileLog' = Append(fileLog,
                            [sheet |-> sheetName, file |-> f, outcome |-> "merged",
                             rows |-> kept, start |-> currentRow])
                     /\ openReaders' = CloseReader(openReaders, FileReader(f))
                     /\ fileIdx' = fileIdx + 1
                     /\ pc' = "files"
                     /\ ret' = ret

\* merger.go 424 and 127-133 / 157-163: the sheet is done and enters the result
FinishSheet ==
    /\ pc = "files"
    /\ fileIdx > Len(AllFiles)
    /\ UNCHANGED <<filterCall, threads>>
    /\ UNCHANGED <<inputs, fs, templateArticles, progress, counters, currentOperation,
                   sheetLocals, fileLog, ret, writer>>
    /\ openReaders' = CloseReader(openReaders, BaseReader)
    /\ result' = [result EXCEPT
                    !.SheetStats = [n \in DOMAIN @ \cup {sheetName} |->
                                       IF n = sheetName THEN SheetStat(rowsMerged, totalFiles)
                                       ELSE @[n]],
                    !.TotalRows = @ + rowsMerged,
                    !.Warnings = AppendWarnings(@, warnings),
                    !.ProcessedSheets = @ + 1]
    /\ pc' = "sheets"

\* merger.go 166-175: no sheet is left, the result is returned
MergeFilesReturn ==
    /\ pc = "sheets"
    /\ NextSheets = {}
    /\ UNCHANGED <<filterCall, threads>>
    /\ UNCHANGED <<inputs, fs, templateArticles, progress, counters, currentOperation,
                   sheetLocals, fileLog, writer, openReaders>>
    /\ result' = [result EXCEPT !.ProcessedFiles = totalFiles]
    /\ ret' = <<OkReturn(result')>>
    /\ pc' = "done"

Next ==
    \/ MergeFilesStart
    \/ \E s \in SheetNames : StartSheet(s)
    \/ OpenFile
    \/ MergeRows
    \/ FinishSheet
    \/ MergeFilesReturn

Spec == Init /\ [][Next]_vars

\* one run of MergeFiles, as Spec: the progress updates, the statistics and the
\* key set of a run are checked under this name
RunSpec == Init /\ [][Next]_vars

(***************************************************************************)
(* The row filters called on their own: the arguments are chosen, then the *)
(* function is applied; filterEmptyRows is applied once more to its own    *)
(* result.  No call of MergeFiles is made.                                 *)
(***************************************************************************)
\* no call of MergeFiles is made
MergerIdle ==
    /\ baseFilePath = ""
    /\ filePaths = <<>>
    /\ sheetConfigs = <<>>
    /\ fs = [f \in Files |-> UnknownFile]
    /\ templateArticles = {}
    /\ progress = <<>>
    /\ pc = "start"
    /\ result = EmptyResult
    /\ ret = <<>>
    /\ writer = <<>>
    /\ totalFiles = 0
    /\ totalOperations = 0
    /\ currentOperation = 0
    /\ sheetName = ""
    /\ baseRows = <<>>
    /\ currentRow = 0
    /\ fileIdx = 0
    /\ warnings = <<>>
    /\ rowsMerged = 0
    /\ dataRows = <<>>
    /\ openReaders = {}
    /\ fileLog = <<>>

FilterInit ==
    /\ cb = NoThreads
    /\ gui = NoGui
    /\ \/ \E r \in BatchesOf(MaxRows) :
              call = FilterCall("filterEmptyRows", r, <<>>, {}, -1, <<>>)
       \/ \E fn \in {"filterRowsByColumnValue", "columnStage"}, r \in BatchesOf(MaxRows),
              c \in FilterColumns, v \in FilterValueLists :
              call = FilterCall(fn, r, <<>>, {}, c, v)
       \/ \E r \in BatchesOf(MaxRows), h \in FilterHeaders :
              call = FilterCall("extractArticlesFromRows", r, h, {}, -1, <<>>)
       \/ \E r \in BatchesOf(MaxRows), h \in FilterHeaders, a \in ArticleSets :
              call = FilterCall("filterRowsByArticles", r, h, a, -1, <<>>)
       \/ \E r \in {<<>>, <<RowsH[1]>>} \cup {<<RowsH[1], r2>> : r2 \in RowsOfCells(MaxCells)} :
              call = FilterCall("FindBrandColumnInFirstRows", r, <<>>, {}, -1, <<>>)
    /\ out = <<>>
    /\ MergerIdle

mergeCall ==
    <<inputs, fs, templateArticles, progress, pc, result, ret, writer, counters,
      currentOperation, sheetLocals, openReaders, fileLog>>

\* merger.go 428-446, and once more on what it returned
ApplyFilterEmptyRows ==
    /\ call.fn = "filterEmptyRows"
    /\ Len(out) < 2
    /\ out' = Append(out, filterEmptyRows(IF out = <<>> THEN call.rows ELSE out[Len(out)]))
    /\ UNCHANGED <<call, mergeCall, threads>>

\* merger.go 449-488
ApplyFilterRowsByColumnValue ==
    /\ call.fn = "filterRowsByColumnValue"
    /\ out = <<>>
    /\ out' = <<filterRowsByColumnValue(call.rows, call.col, call.values)>>
    /\ UNCHANGED <<call, mergeCall, threads>>

\* merger.go 327-356: the blank-row and column-value stages of mergeSheetWithWriter
ApplyColumnStage ==
    /\ call.fn = "columnStage"
    /\ out = <<>>
    /\ out' = <<AfterColumnFilter(ConfigOfCall(call), call.rows)>>
    /\ UNCHANGED <<call, mergeCall, threads>>

\* merger.go 494-522
ApplyExtractArticlesFromRows ==
    /\ call.fn = "extractArticlesFromRows"
    /\ out = <<>>
    /\ out' = <<extractArticlesFromRows(call.header, call.rows)>>
    /\ UNCHANGED <<call, mergeCall, threads>>

\* merger.go 529-561
ApplyFilterRowsByArticles ==
    /\ call.fn = "filterRowsByArticles"
    /\ out = <<>>
    /\ out' = <<filterRowsByArticles(call.header, call.rows, call.articles)>>
    /\ UNCHANGED <<call, mergeCall, threads>>

\* analyzer.go 67-94
ApplyFindBrandColumnInFirstRows ==
    /\ call.fn = "FindBrandColumnInFirstRows"
    /\ out = <<>>
    /\ out' = <<FindBrandColumnInFirstRows(call.rows)>>
    /\ UNCHANGED <<call, mergeCall, threads>>

FilterNext ==
    \/ ApplyFindBrandColumnInFirstRows
    \/ ApplyFilterEmptyRows
    \/ ApplyFilterRowsByColumnValue
    \/ ApplyColumnStage
    \/ ApplyExtractArticlesFromRows
    \/ ApplyFilterRowsByArticles

FilterSpec == FilterInit /\ [][FilterNext]_vars

(***************************************************************************)
(* A further call of MergeFiles on a Merger that an earlier call has left  *)
(* with keys in m.templateArticles.                                        *)
(***************************************************************************)
LeftoverArticles == {{cK1}, {cK1, cK2}, {cK1, cK2, cK3}}

SecondCallInit ==
    /\ templateArticles \in LeftoverArticles
    /\ BeforeMergeFiles

SecondCallSpec == SecondCallInit /\ [][Next]_vars

(***************************************************************************)
(* SetProgressCallback on one thread, notifyProgress on another            *)
(* (merger.go 45-61).  A callback "old" may be registered beforehand; the  *)
(* first thread registers "new".                                           *)
(***************************************************************************)
CallbackInit ==
    /\ \E registered \in {"none", "old"} : cb = [NoThreads EXCEPT !.slot = registered]
    /\ gui = NoGui
    /\ call = NoCall
    /\ out = <<>>
    /\ MergerIdle

notCallback == <<mergeCall, filterCall, gui>>

\* merger.go 47: m.mu.Lock()
SetLock ==
    /\ cb.setPc = "idle"
    /\ cb.mu = "free"
    /\ cb' = [cb EXCEPT !.mu = "setter", !.setPc = "locked"]
    /\ UNCHANGED notCallback

\* merger.go 49: m.progressCallback = callback
SetAssign ==
    /\ cb.setPc = "locked"
    /\ cb' = [cb EXCEPT !.slot = "new", !.setPc = "assigned"]
    /\ UNCHANGED notCallback

\* merger.go 48: the deferred m.mu.Unlock(), and the return
SetReturn ==
    /\ cb.setPc = "assigned"
    /\ cb' = [cb EXCEPT !.mu = "free", !.setPc = "returned"]
    /\ UNCHANGED notCallback

\* merger.go 54: m.mu.Lock()
NoteLock ==
    /\ cb.notePc = "idle"
    /\ cb.notified < MaxNotifications
    /\ cb.mu = "free"
    /\ cb' = [cb EXCEPT !.mu = "notifier", !.notePc = "locked", !.notified = @ + 1]
    /\ UNCHANGED notCallback

\* merger.go 55: callback := m.progressCallback
NoteRead ==
    /\ cb.notePc = "locked"
    /\ cb' = [cb EXCEPT !.local = cb.slot, !.notePc = "read"]
    /\ UNCHANGED notCallback

\* merger.go 56: m.mu.Unlock()
NoteUnlock ==
    /\ cb.notePc = "read"
    /\ cb' = [cb EXCEPT !.mu = "free", !.notePc = "unlocked"]
    /\ UNCHANGED notCallback

\* merger.go 58-60: if callback != nil { callback(current, total, message) }
NoteCall ==
    /\ cb.notePc = "unlocked"
    /\ cb' = IF cb.local = "none"
             THEN [cb EXCEPT !.notePc = "idle"]
             ELSE [cb EXCEPT !.notePc = "calling", !.running = cb.local,
                             !.late = IF cb.setPc = "returned" THEN @ \cup {cb.local} ELSE @]
    /\ UNCHANGED notCallback

\* the callback returns, and notifyProgress with it
NoteReturn ==
    /\ cb.notePc = "calling"
    /\ cb' = [cb EXCEPT !.notePc = "idle", !.running = "none", !.local = "none"]
    /\ UNCHANGED notCallback

CallbackNext ==
    \/ SetLock
    \/ SetAssign
    \/ SetReturn
    \/ NoteLock
    \/ NoteRead
    \/ NoteUnlock
    \/ NoteCall
    \/ NoteReturn

CallbackSpec == CallbackInit /\ [][CallbackNext]_vars

(***************************************************************************)
(* The merge tab (merge_tab.go 123-266): the start button, the worker      *)
(* goroutine, the goroutine that relays progress, and the closures that    *)
(* fyne.Do hands to the main thread.  A merge is known by its number; the  *)
(* MergeResult of merge n is n, nil is 0.                                  *)
(***************************************************************************)
ProgressChanCap == 10
DoneChanCap == 1

Merges == 1..MaxMerges

NoGoroutines ==
    [worker |-> [id \in Merges |-> [pc |-> "none", sent |-> 0, err |-> "none"]],
     progressChan |-> [id \in Merges |-> [buf |-> <<>>, closed |-> FALSE]],
     doneChan |-> [id \in Merges |-> <<>>],
     relay |-> [id \in Merges |-> [pc |-> "none", got |-> <<>>]],
     handled |-> [id \in Merges |-> [updates |-> 0, err |-> "none", read |-> -1]]]

\* merge_tab.go 34-41, 56: NewMergeTab and Build
NewMergeTab ==
    [mergeInProgress |-> FALSE, startBtn |-> TRUE, saveBtn |-> FALSE, dialogs |-> <<>>,
     mergeResult |-> 0, callback |-> 0, started |-> 0, mainQueue |-> <<>>,
     crashed |-> FALSE] @@ NoGoroutines

GuiInit ==
    /\ gui = NewMergeTab
    /\ cb = NoThreads
    /\ call = NoCall
    /\ out = <<>>
    /\ MergerIdle

notGui == <<mergeCall, filterCall, cb>>

\* app.go 158-160 and the like: the dialog on top is the one that takes input
ShowDialog(g, kind) == [g EXCEPT !.dialogs = Append(@, kind)]
TopDialog(g) == IF g.dialogs = <<>> THEN "none" ELSE g.dialogs[Len(g.dialogs)]
CloseDialog(g) == [g EXCEPT !.dialogs = SubSeq(@, 1, Len(@) - 1)]

\* a start that does not look at mergeInProgress
StartRefusedNever(g) == FALSE

\* merge_tab.go 125: if t.mergeInProgress
StartRefused(g) == g.mergeInProgress

\* merge_tab.go 167-189 and the two go statements: startMergeProcess
startMergeProcess(g) ==
    LET id == g.started + 1
    IN  [g EXCEPT !.startBtn = FALSE,
                  !.saveBtn = FALSE,
                  !.mergeInProgress = TRUE,
                  !.started = id,
                  !.callback = id,
                  !.worker[id].pc = "merge",
                  !.relay[id].pc = "range"]

\* merge_tab.go 124-164: onStartMerge, while fewer than merges merges were started
OnStartMerge(merges) ==
    /\ ~gui.crashed
    /\ TopDialog(gui) = "none"
    /\ \E ready \in BOOLEAN, manyFiles \in BOOLEAN :
          /\ StartRefused(gui) \/ ~ready \/ gui.started < merges
          /\ gui' = IF StartRefused(gui) THEN ShowDialog(gui, "info")
                    ELSE IF ~ready THEN ShowDialog(gui, "error")
                    ELSE IF manyFiles THEN ShowDialog(gui, "confirm")
                    ELSE startMergeProcess(gui)
    /\ UNCHANGED notGui

\* merge_tab.go 153-157: the callback of the confirmation
ConfirmAnswer ==
    /\ ~gui.crashed
    /\ TopDialog(gui) = "confirm"
    /\ \E confirmed \in BOOLEAN :
          gui' = IF confirmed THEN startMergeProcess(CloseDialog(gui)) ELSE CloseDialog(gui)
    /\ UNCHANGED notGui

\* an information or error dialog is dismissed
DismissDialog ==
    /\ ~gui.crashed
    /\ TopDialog(gui) \in {"info", "error"}
    /\ gui' = CloseDialog(gui)
    /\ UNCHANGED notGui

\* merge_tab.go 183-189 in MergeFiles (merger.go 53-61, 293): the registered
\* callback sends an update on its progressChan, one of at most updates
WorkerNotify(id, updates) ==
    /\ ~gui.crashed
    /\ gui.worker[id].pc = "merge"
    /\ gui.worker[id].sent < updates
    /\ gui.callback # 0
    /\ ~gui.progressChan[gui.callback].closed
    /\ Len(gui.progressChan[gui.callback].buf) < ProgressChanCap
    /\ gui' = [gui EXCEPT !.worker[id].sent = @ + 1,
                          !.progressChan[gui.callback].buf =
                              Append(@, gui.worker[id].sent + 1)]
    /\ UNCHANGED notGui

\* merge_tab.go 206: MergeFiles returns, with a result or with an error
WorkerReturn(id) ==
    /\ ~gui.crashed
    /\ gui.worker[id].pc = "merge"
    /\ \E err \in {"nil", "error"} :
          gui' = [gui EXCEPT !.worker[id].pc = "sendDone", !.worker[id].err = err]
    /\ UNCHANGED notGui

\* merge_tab.go 208: doneChan <- err
WorkerSendDone(id) ==
    /\ ~gui.crashed
    /\ gui.worker[id].pc = "sendDone"
    /\ Len(gui.doneChan[id]) < DoneChanCap
    /\ gui' = [gui EXCEPT !.worker[id].pc = "close",
                          !.doneChan[id] = Append(@, gui.worker[id].err)]
    /\ UNCHANGED notGui

\* merge_tab.go 209: close(progressChan)
WorkerClose(id) ==
    /\ ~gui.crashed
    /\ gui.worker[id].pc = "close"
    /\ gui' = [gui EXCEPT !.worker[id].pc = "assign", !.progressChan[id].closed = TRUE]
    /\ UNCHANGED notGui

\* merge_tab.go 211-214: if result != nil { ...; t.mergeResult = result }
WorkerAssign(id) ==
    /\ ~gui.crashed
    /\ gui.worker[id].pc = "assign"
    /\ gui' = [gui EXCEPT !.worker[id].pc = "exit",
                          !.mergeResult = IF gui.worker[id].err = "nil" THEN id ELSE @]
    /\ UNCHANGED notGui

\* a range loop that ends as soon as the channel is empty
RangeEndsWhenEmpty(ch) == ch.buf = <<>>

\* for ... range: the loop ends when the channel is closed and drained
RangeEnds(ch) == ch.buf = <<>> /\ ch.closed

\* merge_tab.go 219-236: for update := range progressChan { fyne.Do(...) }
RelayReceive(id) ==
    /\ ~gui.crashed
    /\ gui.relay[id].pc = "range"
    /\ gui.progressChan[id].buf # <<>>
    /\ LET update == Head(gui.progressChan[id].buf)
       IN  gui' = [gui EXCEPT !.progressChan[id].buf = Tail(@),
                              !.relay[id].got = Append(@, update),
                              !.mainQueue = Append(@, [kind |-> "update", id |-> id,
                                                       update |-> update, err |-> "none"])]
    /\ UNCHANGED notGui

\* merge_tab.go 219 / 236: the range loop ends
RelayRangeEnd(id) ==
    /\ ~gui.crashed
    /\ gui.relay[id].pc = "range"
    /\ RangeEnds(gui.progressChan[id])
    /\ gui' = [gui EXCEPT !.relay[id].pc = "done"]
    /\ UNCHANGED notGui

\* merge_tab.go 239-241: err := <-doneChan; fyne.Do(func() {...})
RelayReceiveDone(id) ==
    /\ ~gui.crashed
    /\ gui.relay[id].pc = "done"
    /\ gui.doneChan[id] # <<>>
    /\ gui' = [gui EXCEPT !.doneChan[id] = Tail(@),
                          !.relay[id].pc = "exit",
                          !.mainQueue = Append(@, [kind |-> "complete", id |-> id, update |-> 0,
                                                   err |-> Head(gui.doneChan[id])])]
    /\ UNCHANGED notGui

\* merge_tab.go 223-235: the closure of one update, on the main thread
ShowUpdate(g, c) == [g EXCEPT !.handled[c.id].updates = c.update]

\* merge_tab.go 241-264: the closure of the completion, on the main thread;
\* with t.mergeResult nil the dereference of line 261 ends the program
HandleCompletion(g, c) ==
    LET enabled == [g EXCEPT !.mergeInProgress = FALSE, !.startBtn = TRUE,
                             !.handled[c.id].err = c.err]
    IN  IF c.err # "nil"
        THEN ShowDialog(enabled, "error")
        ELSE [enabled EXCEPT !.saveBtn = TRUE,
                             !.handled[c.id].read = g.mergeResult,
                             !.crashed = (g.mergeResult = 0)]

\* the main thread runs the next closure handed to fyne.Do
MainRun ==
    /\ ~gui.crashed
    /\ gui.mainQueue # <<>>
    /\ LET c == Head(gui.mainQueue)
           g == [gui EXCEPT !.mainQueue = Tail(@)]
       IN  gui' = IF c.kind = "update" THEN ShowUpdate(g, c) ELSE HandleCompletion(g, c)
    /\ UNCHANGED notGui

Worker(id, updates) ==
    \/ WorkerNotify(id, updates)
    \/ WorkerReturn(id)
    \/ WorkerSendDone(id)
    \/ WorkerClose(id)
    \/ WorkerAssign(id)

Relay(id) ==
    \/ RelayReceive(id)
    \/ RelayRangeEnd(id)
    \/ RelayReceiveDone(id)

\* merges that follow one another, each of few updates
GuiNext ==
    \/ OnStartMerge(MaxMerges)
    \/ ConfirmAnswer
    \/ DismissDialog
    \/ \E id \in Merges : Worker(id, FewUpdates)
    \/ \E id \in Merges : Relay(id)
    \/ MainRun

GuiSpec == GuiInit /\ [][GuiNext]_vars

\* one merge, of more updates than progressChan holds
MergeProcessNext ==
    \/ OnStartMerge(1)
    \/ ConfirmAnswer
    \/ DismissDialog
    \/ Worker(1, MaxUpdates)
    \/ Relay(1)
    \/ MainRun

\* the goroutines and the main thread are scheduled; what the user does is not
MergeProcessSpec ==
    /\ GuiInit
    /\ [][MergeProcessNext]_vars
    /\ WF_vars(Worker(1, MaxUpdates))
    /\ WF_vars(Relay(1))
    /\ WF_vars(MainRun)

TypeOK ==
    /\ pc \in {"start", "sheets", "files", "rows", "done"}
    /\ Len(ret) <= 1
    /\ (pc = "done") = (ret # <<>>)

(***************************************************************************)
(* Vocabulary of the properties.                                           *)
(***************************************************************************)
EnabledSheets == {s \in DOMAIN sheetConfigs : sheetConfigs[s].Enabled}
TemplateEnabled == TemplateSheet \in EnabledSheets
Returned == ret # <<>>
Succeeded == Returned /\ ret[1].err = <<>>
Failed == Returned /\ ret[1].err # <<>>
EntriesOf(s) == SelectSeq(fileLog, LAMBDA e : e.sheet = s)
ProgressOf(s) == SelectSeq(progress, LAMBDA u : u.sheet = s)
OutputSheets == IF writer = <<>> THEN {} ELSE DOMAIN writer[1].sheets
OutputOf(s) == writer[1].sheets[s]
BaseRowsOf(s) == fs[baseFilePath].sheets[s].rows

RECURSIVE SumLen(_)
SumLen(entries) ==
    IF Len(entries) = 0 THEN 0 ELSE Len(Head(entries).rows) + SumLen(Tail(entries))

RECURSIVE Concat(_)
Concat(entries) ==
    IF Len(entries) = 0 THEN <<>> ELSE Head(entries).rows \o Concat(Tail(entries))

\* a sheet other than the template has been touched: created in the output,
\* announced, read, or handed to mergeSheetWithWriter
Touched(s) ==
    \/ s \in OutputSheets
    \/ Len(ProgressOf(s)) > 0
    \/ Len(EntriesOf(s)) > 0
    \/ (pc \in {"files", "rows"} /\ sheetName = s)

TemplateComplete ==
    /\ TemplateSheet \in DOMAIN result.SheetStats
    /\ Len(ProgressOf(TemplateSheet)) = totalFiles
    /\ Len(EntriesOf(TemplateSheet)) = totalFiles
    /\ ~(pc \in {"files", "rows"} /\ sheetName = TemplateSheet)

(***************************************************************************)
(* C1: when the template sheet is enabled, every step of its processing    *)
(* (creation, progress updates, reads, writes, key extraction) comes before *)
(* the first step of any other sheet.                                      *)
(***************************************************************************)
C1_TemplateSheetFirst ==
    TemplateEnabled =>
        /\ \A s \in SheetNames \ {TemplateSheet} : Touched(s) => TemplateComplete
        /\ \A i, j \in 1..Len(progress) :
               (i < j /\ progress[j].sheet = TemplateSheet) => progress[i].sheet = TemplateSheet

C1_Witness ==
    /\ Succeeded
    /\ TemplateEnabled
    /\ "Data" \in EnabledSheets
    /\ templateArticles # {}
    /\ Len(ProgressOf("Data")) = totalFiles
    /\ totalFiles = 3

(***************************************************************************)
(* C2: on a successful run every data row written to a sheet with          *)
(* UseTemplateArticles has its trimmed key-column value in the extracted   *)
(* key set; with an empty key set or no key column nothing is written.     *)
(***************************************************************************)
C2_OnlyRowsWithTemplateKeys ==
    Succeeded =>
        \A i \in 1..Len(fileLog) :
            LET e == fileLog[i]
                config == sheetConfigs[e.sheet]
                col == articleColIndex(HeaderOf(config, BaseRowsOf(e.sheet)))
            IN  config.UseTemplateArticles =>
                    \A k \in 1..Len(e.rows) :
                        /\ col >= 0
                        /\ col < Len(e.rows[k])
                        /\ TrimSpace(e.rows[k][col + 1]) \in templateArticles

(***************************************************************************)
(* C3: a file that cannot be opened, lacks the sheet or cannot be read     *)
(* never aborts the run: an error is always one of the fatal ones, the      *)
(* failing pair adds no row, and a successful run has visited every file    *)
(* of every enabled sheet.                                                 *)
(***************************************************************************)
FatalErrors ==
    {"base file path is empty", "no sheets to process", "cannot create sheet",
     "cannot open base file", "sheet not found in base file", "cannot read base file",
     "cannot write headers", "cannot write data"}

DataRowNumbers(s) == {r \in DOMAIN OutputOf(s) : r > sheetConfigs[s].HeaderRow}

C3_PerFileFailureNeverAborts ==
    /\ Failed => ret[1].err[1] \in FatalErrors
    /\ \A i \in 1..Len(fileLog) :
           LET e == fileLog[i]
           IN  /\ e.outcome # "merged" => e.rows = <<>>
               /\ (e.outcome = "openfail") = (fs[e.file].open = "fail")
               /\ (e.outcome = "nosheet") =
                      (fs[e.file].open = "ok" /\ fs[e.file].sheets[e.sheet].st = "absent")
               /\ (e.outcome = "readfail") =
                      (fs[e.file].open = "ok" /\ fs[e.file].sheets[e.sheet].st = "unreadable")
    /\ \A s \in OutputSheets \cap EnabledSheets :
           Cardinality(DataRowNumbers(s)) =
               SumLen(SelectSeq(EntriesOf(s), LAMBDA e : e.outcome = "merged"))
    /\ Succeeded =>
           \A s \in EnabledSheets :
               /\ Len(EntriesOf(s)) = Len(AllFiles)
               /\ \A k \in 1..Len(AllFiles) : EntriesOf(s)[k].file = AllFiles[k]

C3_Witness ==
    /\ Succeeded
    /\ Cardinality(EnabledSheets) = 2
    /\ Len(filePaths) = 2
    /\ fs[AllFilePaths[1]].open = "fail"
    /\ fs[AllFilePaths[2]].sheets[TemplateSheet].st = "unreadable"
    /\ fs[AllFilePaths[2]].sheets["Data"].st = "ok"
    /\ Len(fileLog[6].rows) > 0

(***************************************************************************)
(* C4: when some files lack the sheet the run still succeeds, the files     *)
(* that hold the sheet are the ones merged, and the returned warnings hold  *)
(* one missing-sheet warning per (sheet, file) occurrence, in the order of  *)
(* processing.                                                             *)
(***************************************************************************)
MissingSheetWarnings(ws) == SelectSeq(ws, LAMBDA w : w.kind = "nosheet")
MissingOccurrences == SelectSeq(fileLog, LAMBDA e : e.outcome = "nosheet")

C5_FatalErrorReturnsNoResult ==
    /\ Failed =>
           /\ ret[1].result = NilResult
           /\ pc = "done"
           /\ openReaders = {}
           /\ writer # <<>> => writer[1].closed
    /\ (baseFilePath # "" /\ fs[baseFilePath].open = "fail") =>
           (Failed /\ ret[1].err[1] = "cannot open base file")
    /\ \A s \in SheetNames :
           (baseFilePath # "" /\ fs[baseFilePath].sheets[s].st = "absent") =>
               (Failed /\ ret[1].err[1] = "sheet not found in base file" /\ sheetName = s)
    /\ \A s \in SheetNames :
           (baseFilePath # "" /\ fs[baseFilePath].sheets[s].st = "unreadable") =>
               (Failed /\ ret[1].err[1] = "cannot read base file" /\ sheetName = s)
    /\ Failed =>
           \* nothing of a later sheet or file has happened
           /\ \A s \in EnabledSheets \ (DOMAIN result.SheetStats \cup {sheetName}) : ~Touched(s)
           /\ Len(fileLog) = Len(progress)
                  - (IF ret[1].err[1] = "cannot write data" THEN 1 ELSE 0)

C5_Witness ==
    /\ Failed
    /\ ret[1].err[1] = "cannot write data"
    /\ result.ProcessedSheets = 1
    /\ result.TotalRows > 0
    /\ Len(result.Warnings) > 0
    /\ fileIdx = 2
    /\ Len(filePaths) = 2

(***************************************************************************)
(* C6: with an empty base path, or with no enabled entry in sheetConfigs,  *)
(* MergeFiles returns an error and no result, and has created no output,    *)
(* opened no file and announced no progress.                               *)
(***************************************************************************)
NothingTouched ==
    /\ writer = <<>>
    /\ progress = <<>>
    /\ \A f \in Files : fs[f].open = "unknown"

C6_FailsFastWithoutEnabledSheet ==
    (pc # "start" /\ (baseFilePath = "" \/ EnabledSheets = {})) =>
        /\ Failed
        /\ ret[1].result = NilResult
        /\ NothingTouched

(***************************************************************************)
(* C7: the data region of an output sheet is the concatenation, in the      *)
(* order [baseFile] ++ additionalFiles, of the rows of each file that lie   *)
(* below headerRow and survive the filters; it starts at headerRow + 1,     *)
(* each batch starts right after the one before, nothing is overwritten     *)
(* and no gap is left.                                                     *)
(***************************************************************************)
NonBlank(row) == \E j \in 1..Len(row) : row[j] # <<>>
RowsBelowHeader(f, s) ==
    LET rows == fs[f].sheets[s].rows
    IN  [k \in 1..(IF Len(rows) > sheetConfigs[s].HeaderRow
                   THEN Len(rows) - sheetConfigs[s].HeaderRow ELSE 0) |->
            rows[sheetConfigs[s].HeaderRow + k]]
Unfiltered(s) == ~UsesColumnFilter(sheetConfigs[s]) /\ ~sheetConfigs[s].UseTemplateArticles

C7_DataRegionIsConcatenation ==
    \A s \in (IF Failed THEN {} ELSE OutputSheets \cap EnabledSheets) :
        LET H == sheetConfigs[s].HeaderRow
            entries == EntriesOf(s)
            data == Concat(entries)
        IN  /\ DataRowNumbers(s) = (H + 1)..(H + Len(data))
            /\ \A k \in 1..Len(data) : OutputOf(s)[H + k] = data[k]
            /\ \A i \in 1..Len(entries) :
                   /\ entries[i].file = AllFiles[i]
                   /\ entries[i].start = H + 1 + SumLen(SubSeq(entries, 1, i - 1))
                   /\ entries[i].outcome = "merged" =>
                          LET below == RowsBelowHeader(entries[i].file, s)
                          IN  /\ \A k \in 1..Len(entries[i].rows) :
                                     /\ NonBlank(entries[i].rows[k])
                                     /\ \E m \in 1..Len(below) : below[m] = entries[i].rows[k]
                              /\ Unfiltered(s) =>
                                     entries[i].rows = SelectSeq(below, NonBlank)

C7_Witness ==
    /\ Succeeded
    /\ \E s \in EnabledSheets :
           /\ sheetConfigs[s].HeaderRow = 2
           /\ Len(EntriesOf(s)) = 3
           /\ \A i \in 1..3 : Len(EntriesOf(s)[i].rows) > 0
           /\ Len(RowsBelowHeader(AllFiles[1], s)) > Len(EntriesOf(s)[1].rows)

(***************************************************************************)
(* C8: rows 1..headerRow of a processed output sheet equal rows             *)
(* 1..headerRow of the sheet of the base file.                             *)
(***************************************************************************)
RowAt(sheet, r) == IF r \in DOMAIN sheet THEN sheet[r] ELSE <<>>

C8_HeaderRowsCopiedFromBase ==
    \A s \in DOMAIN result.SheetStats :
        \A r \in 1..sheetConfigs[s].HeaderRow :
            RowAt(OutputOf(s), r) = RowAt(BaseRowsOf(s), r)

(***************************************************************************)
(* C9: one sheet, no filters, the header of the base file in row H, two     *)
(* additional files with k non-blank data rows each.                       *)
(***************************************************************************)
NonBlankBelowHeader(f, s) == Len(SelectSeq(RowsBelowHeader(f, s), NonBlank))
RowCount(sheet) == IF DOMAIN sheet = {} THEN 0 ELSE Max(DOMAIN sheet)

TwoFilesOfKRows(s, k) ==
    /\ Succeeded
    /\ EnabledSheets = {s}
    /\ Unfiltered(s)
    /\ Len(filePaths) = 2
    /\ Len(BaseRowsOf(s)) >= sheetConfigs[s].HeaderRow
    /\ NonBlank(BaseRowsOf(s)[sheetConfigs[s].HeaderRow])
    /\ \A i \in 1..2 :
           /\ fs[filePaths[i]].open = "ok"
           /\ fs[filePaths[i]].sheets[s].st = "ok"
           /\ NonBlankBelowHeader(filePaths[i], s) = k

\* the claim as written: totalRows = 2k and the output sheet has H + 2k rows
C9_TotalRowsIsTwoK ==
    \A s \in SheetNames, k \in 0..4 :
        TwoFilesOfKRows(s, k) =>
            /\ ret[1].result[1].TotalRows = 2 * k
            /\ RowCount(OutputOf(s)) = sheetConfigs[s].HeaderRow + 2 * k

\* C9 amended: the base file is merged as well, with its b non-blank data rows:
\* totalRows = b + 2k and the output sheet has H + b + 2k rows
C9_TotalRowsCountsBaseFile ==
    \A s \in SheetNames, k \in 0..4 :
        TwoFilesOfKRows(s, k) =>
            LET b == NonBlankBelowHeader(baseFilePath, s)
            IN  /\ ret[1].result[1].TotalRows = b + 2 * k
                /\ ret[1].result[1].SheetStats[s].RowsMerged = b + 2 * k
                /\ RowCount(OutputOf(s)) = sheetConfigs[s].HeaderRow + b + 2 * k

C9_Witness ==
    /\ TwoFilesOfKRows("Data", 3)
    /\ NonBlankBelowHeader(baseFilePath, "Data") = 2
    /\ ret[1].result[1].TotalRows = 8

(***************************************************************************)
(* C10: every progress update carries total = (number of enabled sheet     *)
(* configs) * (1 + number of additional files), so that the last update of  *)
(* a successful run has current = total.                                   *)
(***************************************************************************)
C10_ProgressTotalCountsEnabledSheets ==
    /\ \A i \in 1..Len(progress) :
           progress[i].total = Cardinality(EnabledSheets) * (1 + Len(filePaths))
    /\ (Succeeded /\ Len(progress) > 0) =>
           progress[Len(progress)].current = progress[Len(progress)].total

(***************************************************************************)
(* C11: every (enabled sheet, file) pair the loop reaches gets exactly one *)
(* progress update, whatever became of the file; the current values of the *)
(* updates are 1, 2, 3, ..., none above total, and total is the same in    *)
(* every update of the run.                                                *)
(***************************************************************************)
\* the pair announced last is still being read or written
InFlight ==
    IF pc = "rows" \/ (Failed /\ ret[1].err[1] = "cannot write data") THEN 1 ELSE 0

C11_OneProgressUpdatePerPair ==
    /\ \A i \in 1..Len(progress) :
           /\ progress[i].current = i
           /\ progress[i].current <= progress[i].total
           /\ progress[i].total = progress[1].total
           /\ sheetConfigs[progress[i].sheet].Enabled
           /\ progress[i].index \in 1..Len(AllFiles)
           /\ progress[i].file = AllFiles[progress[i].index]
           \* no pair twice: the files of a sheet follow one another, from the
           \* first on, and a sheet is not begun twice
           /\ IF i > 1 /\ progress[i - 1].sheet = progress[i].sheet
              THEN progress[i].index = progress[i - 1].index + 1
              ELSE /\ progress[i].index = 1
                   /\ \A j \in 1..(i - 1) : progress[j].sheet # progress[i].sheet
    /\ Len(progress) = Len(fileLog) + InFlight
    /\ \A i \in 1..Len(fileLog) :
           /\ fileLog[i].sheet = progress[i].sheet
           /\ fileLog[i].file = progress[i].file
    /\ Succeeded =>
           \A s \in EnabledSheets :
               {ProgressOf(s)[k].index : k \in 1..Len(ProgressOf(s))} = 1..Len(AllFiles)

C11_Witness ==
    /\ Succeeded
    /\ Cardinality(EnabledSheets) = 2
    /\ Len(progress) = 6
    /\ progress[6].current = 6
    /\ \E i \in 1..6 : fileLog[i].outcome = "openfail"
    /\ \E i \in 1..6 : fileLog[i].outcome = "nosheet"
    /\ \E i \in 1..6 : fileLog[i].outcome = "merged" /\ fileLog[i].rows = <<>>
    /\ \E i \in 1..6 : fileLog[i].outcome = "merged" /\ fileLog[i].rows # <<>>

(***************************************************************************)
(* C12: in a returned MergeResult, SheetStats[s].RowsMerged is the number  *)
(* of data rows written to output sheet s, the rows that survived every    *)
(* filter, and TotalRows is the sum of RowsMerged over SheetStats; skipped *)
(* files and filtered rows add nothing.                                    *)
(***************************************************************************)
RECURSIVE SumRowsMerged(_, _)
SumRowsMerged(stats, S) ==
    IF S = {}
    THEN 0
    ELSE LET s == CHOOSE x \in S : TRUE
         IN  stats[s].RowsMerged + SumRowsMerged(stats, S \ {s})

C12_RowsMergedCountsWrittenRows ==
    Succeeded =>
        LET R == ret[1].result[1]
        IN  /\ DOMAIN R.SheetStats = EnabledSheets
            /\ \A s \in DOMAIN R.SheetStats :
                   /\ R.SheetStats[s].RowsMerged = Cardinality(DataRowNumbers(s))
                   /\ R.SheetStats[s].RowsMerged = SumLen(EntriesOf(s))
                   /\ \A i \in 1..Len(EntriesOf(s)) :
                          EntriesOf(s)[i].outcome # "merged" => EntriesOf(s)[i].rows = <<>>
            /\ R.TotalRows = SumRowsMerged(R.SheetStats, DOMAIN R.SheetStats)

C12_Witness ==
    /\ Succeeded
    /\ Cardinality(DOMAIN ret[1].result[1].SheetStats) = 2
    /\ ret[1].result[1].SheetStats[TemplateSheet].RowsMerged = 2
    /\ ret[1].result[1].SheetStats["Data"].RowsMerged = 5
    /\ ret[1].result[1].TotalRows = 7
    /\ \E i \in 1..Len(fileLog) : fileLog[i].outcome = "openfail"
    /\ \E i \in 1..Len(fileLog) :
           /\ fileLog[i].outcome = "merged"
           /\ Len(fileLog[i].rows) < Len(RowsBelowHeader(fileLog[i].file, fileLog[i].sheet))

(***************************************************************************)
(* C13: in a returned MergeResult, SheetStats[s].FilesCount is the number  *)
(* of files that contributed surviving rows to sheet s; a file that could  *)
(* not be opened, lacked the sheet or had every row filtered out is not    *)
(* counted.                                                                *)
(***************************************************************************)
ContributingFiles(s) == {i \in 1..Len(EntriesOf(s)) : Len(EntriesOf(s)[i].rows) > 0}

C13_FilesCountCountsContributingFiles ==
    Succeeded =>
        \A s \in DOMAIN ret[1].result[1].SheetStats :
            ret[1].result[1].SheetStats[s].FilesCount = Cardinality(ContributingFiles(s))

(***************************************************************************)
(* Vocabulary of the properties of the row filters.                        *)
(***************************************************************************)
Applied(fn) == call.fn = fn /\ out # <<>>

\* the k-th smallest index of K
NthOf(K, k) == CHOOSE i \in K : Cardinality({j \in K : j <= i}) = k

\* res holds exactly the rows of rows at the indices K, in the order of rows
IsSelection(res, rows, K) ==
    /\ Len(res) = Cardinality(K)
    /\ \A k \in 1..Len(res) : res[k] = rows[NthOf(K, k)]

AllCellsEmpty(row) == \A j \in 1..Len(row) : row[j] = <<>>
Normalised(s) == ToLower(TrimSpace(s))

\* 1-based positions of the headers that contain the marker, whatever the case
MarkerColumns(header) ==
    {j \in 1..Len(header) : Contains(ToLower(header[j]), ArticleMarker)}

(***************************************************************************)
(* C14: filterEmptyRows discards a row if and only if every cell of it is  *)
(* the empty string; a row with a non-empty cell, be it of blanks only, is *)
(* retained, and the retained rows keep their order.                       *)
(***************************************************************************)
C14_DiscardsExactlyTheEmptyRows ==
    Applied("filterEmptyRows") =>
        IsSelection(out[1], call.rows,
                    {i \in 1..Len(call.rows) : ~AllCellsEmpty(call.rows[i])})

C14_Witness ==
    /\ Applied("filterEmptyRows")
    /\ call.rows = << <<<<>>, cBlank>>, <<<<>>, <<>>>>, <<cK1, cSh>> >>
    /\ out[1] = << <<<<>>, cBlank>>, <<cK1, cSh>> >>

(***************************************************************************)
(* C15: filterEmptyRows is idempotent: applied to its own result it        *)
(* returns that result.                                                    *)
(***************************************************************************)
C15_FilterEmptyRowsIdempotent ==
    (call.fn = "filterEmptyRows" /\ Len(out) = 2) => out[2] = out[1]

C15_Witness ==
    /\ call.fn = "filterEmptyRows"
    /\ Len(out) = 2
    /\ Len(call.rows) = 3
    /\ AllCellsEmpty(call.rows[1])
    /\ AllCellsEmpty(call.rows[2])
    /\ Len(out[2]) = 1

(***************************************************************************)
(* C16: with columnIndex < 0 or an empty allow-list filterRowsByColumnValue *)
(* returns its input, the same rows in the same order, and the column      *)
(* stage of mergeSheetWithWriter removes no row from what the blank-row     *)
(* stage has left.                                                         *)
(***************************************************************************)
ColumnFilterOff == call.col < 0 \/ Len(call.values) = 0

C16_ColumnFilterIdentityWhenDisabled ==
    /\ (Applied("filterRowsByColumnValue") /\ ColumnFilterOff) => out[1] = call.rows
    /\ (Applied("columnStage") /\ ColumnFilterOff) =>
           IsSelection(out[1], call.rows,
                       {i \in 1..Len(call.rows) : ~AllCellsEmpty(call.rows[i])})

C16_Witness ==
    /\ Applied("filterRowsByColumnValue")
    /\ call.col = 1
    /\ call.values = <<>>
    /\ call.rows = << <<cK3>>, <<<<>>, <<>>>>, <<cK2, cNo>> >>
    /\ out[1] = call.rows

(***************************************************************************)
(* C17: with columnIndex >= 0 and a non-empty allow-list,                  *)
(* filterRowsByColumnValue retains a row if and only if the column is      *)
(* within the row and the cell, trimmed and lower-cased, equals an entry   *)
(* of the allow-list normalised the same way; shorter rows are discarded;  *)
(* the retained rows keep their order.                                     *)
(***************************************************************************)
MatchesAllowList(row, col, values) ==
    /\ col < Len(row)
    /\ \E v \in 1..Len(values) : Normalised(row[col + 1]) = Normalised(values[v])

C17_RetainsRowsMatchingAllowList ==
    (Applied("filterRowsByColumnValue") /\ ~ColumnFilterOff) =>
        IsSelection(out[1], call.rows,
                    {i \in 1..Len(call.rows) :
                        MatchesAllowList(call.rows[i], call.col, call.values)})

C17_Witness ==
    /\ Applied("filterRowsByColumnValue")
    /\ call.col = 1
    /\ call.values = <<cShSp, cNo>>
    /\ call.rows = << <<cK3>>, <<cK1, cSh>>, <<cK2, cNo>> >>
    /\ out[1] = << <<cK1, cSh>>, <<cK2, cNo>> >>

(***************************************************************************)
(* C18: extractArticlesFromRows takes the first header that contains the   *)
(* marker, whatever the case, and returns exactly the distinct, trimmed,   *)
(* non-empty values of that column; rows too short for the column give     *)
(* nothing; with no such header the result is the empty set.               *)
(***************************************************************************)
C18_ExtractsKeysOfFirstMarkerColumn ==
    Applied("extractArticlesFromRows") =>
        IF MarkerColumns(call.header) = {}
        THEN out[1] = {}
        ELSE LET c == Min(MarkerColumns(call.header))
                 values == {TrimSpace(call.rows[i][c]) :
                               i \in {k \in 1..Len(call.rows) : c <= Len(call.rows[k])}}
             IN  /\ <<>> \notin out[1]
                 /\ \A key \in values : key # <<>> => key \in out[1]
                 /\ \A key \in out[1] : key \in values

C18_Witness ==
    /\ Applied("extractArticlesFromRows")
    /\ call.header = <<cArticle, cArtLow>>
    /\ call.rows = << <<cK2sp, cShSp>>, <<<<>>, cBlank>>, <<cK2, cNo>> >>
    /\ out[1] = {cK2}

(***************************************************************************)
(* C19: within one run the key set only grows: it is the union, over the   *)
(* files that contributed to the template sheet, of the keys extracted     *)
(* from the rows of the file that survive the blank-row and column-value   *)
(* filters, and it does not change while another sheet is processed.       *)
(***************************************************************************)
\* the files of the template sheet read so far: those logged as merged, and the
\* one whose rows could not be written
TemplateFilesRead ==
    {EntriesOf(TemplateSheet)[i].file :
        i \in {k \in 1..Len(EntriesOf(TemplateSheet)) :
                  EntriesOf(TemplateSheet)[k].outcome = "merged"}}
    \cup (IF Failed /\ ret[1].err[1] = "cannot write data" /\ sheetName = TemplateSheet
          THEN {AllFiles[fileIdx]}
          ELSE {})

KeysOfFile(f) ==
    extractArticlesFromRows(
        HeaderOf(sheetConfigs[TemplateSheet], BaseRowsOf(TemplateSheet)),
        AfterColumnFilter(sheetConfigs[TemplateSheet], RowsBelowHeader(f, TemplateSheet)))

KeysAreUnionOverTemplateFiles ==
    templateArticles = UNION {KeysOfFile(f) : f \in TemplateFilesRead}

KeysChangeOnlyByGrowingInTemplate ==
    /\ templateArticles \subseteq templateArticles'
    /\ templateArticles' # templateArticles => (pc = "rows" /\ sheetName = TemplateSheet)

C19_KeySetOnlyGrows ==
    /\ []KeysAreUnionOverTemplateFiles
    /\ [][KeysChangeOnlyByGrowingInTemplate]_vars

C19_Witness ==
    /\ Succeeded
    /\ templateArticles = {cK1, cK2, cK3}
    /\ KeysOfFile(AllFiles[1]) = {cK1, cK2}
    /\ KeysOfFile(AllFiles[2]) = {cK2, cK3}
    /\ Len(EntriesOf("Data")) = 2

(***************************************************************************)
(* C20: filterRowsByArticles retains a row if and only if the key column   *)
(* exists, lies within the row, and the trimmed value of the row in that   *)
(* column is in the key set; with an empty key set, or with no key column, *)
(* it returns no row.                                                      *)
(***************************************************************************)
HasKeyIn(row, header, articles) ==
    /\ MarkerColumns(header) # {}
    /\ Min(MarkerColumns(header)) <= Len(row)
    /\ TrimSpace(row[Min(MarkerColumns(header))]) \in articles

C20_RetainsRowsWithKnownKey ==
    Applied("filterRowsByArticles") =>
        /\ IsSelection(out[1], call.rows,
                       {i \in 1..Len(call.rows) :
                           HasKeyIn(call.rows[i], call.header, call.articles)})
        /\ call.articles = {} => out[1] = <<>>
        /\ MarkerColumns(call.header) = {} => out[1] = <<>>

C20_Witness ==
    /\ Applied("filterRowsByArticles")
    /\ call.header = <<cArticle, cArtLow>>
    /\ call.articles = {cSh, cK2}
    /\ call.rows = << <<cK1, cSh>>, <<cK2sp, cShSp>>, <<cK2, cNo>> >>
    /\ out[1] = << <<cK2sp, cShSp>>, <<cK2, cNo>> >>

(***************************************************************************)
(* C21: for every file of every sheet the stages run in the order          *)
(* blank-row removal, column-value filter, key extraction (template sheet  *)
(* only), key filter, each on what the stage before has left: the rows     *)
(* written are a selection, in order, of the rows read; a row removed by   *)
(* the blank-row or the column-value stage is never written and gives no   *)
(* key; every row those two stages leave in the template sheet gives its   *)
(* key, whatever the key filter does with it afterwards.                   *)
(***************************************************************************)
RECURSIVE IsSubsequence(_, _)
IsSubsequence(a, b) ==
    IF Len(a) = 0 THEN TRUE
    ELSE IF Len(b) = 0 THEN FALSE
    ELSE IF Head(a) = Head(b) THEN IsSubsequence(Tail(a), Tail(b))
    ELSE IsSubsequence(a, Tail(b))

\* row is left by the blank-row and the column-value stage of sheet s
PassesFirstStages(row, s) ==
    /\ NonBlank(row)
    /\ UsesColumnFilter(sheetConfigs[s]) =>
           MatchesAllowList(row, sheetConfigs[s].FilterColumn, sheetConfigs[s].FilterValues)

\* 1-based position of the key column of sheet s, 0 when it has none
KeyColumn(s) ==
    LET cols == MarkerColumns(HeaderOf(sheetConfigs[s], BaseRowsOf(s)))
    IN  IF cols = {} THEN 0 ELSE Min(cols)

\* the key of row in column c, <<>> when it has none
KeyAt(row, c) == IF c > 0 /\ c <= Len(row) THEN TrimSpace(row[c]) ELSE <<>>

\* the step that ends the work on a file: of the rows read, the rows the
\* first two stages leave, in order; the keys of those rows added to the key
\* set if the sheet is the template sheet; then, if the sheet filters by
\* keys and there are keys, the rows among them with a known key; these and
\* no other rows written
FileStepInOrder ==
    (Len(fileLog') = Len(fileLog) + 1 /\ fileLog'[Len(fileLog')].outcome = "merged") =>
        LET e == fileLog'[Len(fileLog')]
            c == KeyColumn(e.sheet)
            passing == SelectSeq(RowsBelowHeader(e.file, e.sheet),
                                 LAMBDA row : PassesFirstStages(row, e.sheet))
            keys == {KeyAt(passing[k], c) : k \in 1..Len(passing)} \ {<<>>}
            known == SelectSeq(passing, LAMBDA row : KeyAt(row, c) \in templateArticles')
        IN  /\ templateArticles' = IF e.sheet = TemplateSheet
                                   THEN templateArticles \cup keys
                                   ELSE templateArticles
            /\ e.rows = IF /\ sheetConfigs[e.sheet].UseTemplateArticles
                           /\ templateArticles' # {}
                           /\ Len(passing) > 0
                        THEN known
                        ELSE passing
            /\ IsSubsequence(e.rows, RowsBelowHeader(e.file, e.sheet))

C21_FilterStagesInOrder == [][FileStepInOrder]_vars

\* the template sheet has a column filter and filters by its own keys: the
\* second file gives a key its key filter would not have let through, and a
\* row with a key, removed by the column filter, gives none
C21_Witness ==
    /\ Succeeded
    /\ TemplateEnabled
    /\ UsesColumnFilter(sheetConfigs[TemplateSheet])
    /\ sheetConfigs[TemplateSheet].UseTemplateArticles
    /\ Len(EntriesOf(TemplateSheet)) = 2
    /\ EntriesOf(TemplateSheet)[1].rows = << <<cK1, cSh>> >>
    /\ EntriesOf(TemplateSheet)[2].rows = << <<cK2sp, cShSp>> >>
    /\ templateArticles = {cK1, cK2}

(***************************************************************************)
(* C22: registration and notification exclude one another: once            *)
(* SetProgressCallback(new) has returned, the callback registered before   *)
(* is not entered any more and is not executing, and a notification with   *)
(* no callback registered invokes nothing.                                 *)
(***************************************************************************)
C22_RegistrationExcludesNotification ==
    /\ cb.setPc = "returned" => (cb.running # "old" /\ "old" \notin cb.late)
    /\ (cb.notePc = "calling") = (cb.running # "none")
    /\ (cb.notePc = "calling" /\ cb.setPc = "idle") => cb.running = "old"

C24_AtMostOneSourceOpen ==
    Cardinality(openReaders) <= 1

\* the keys the template sheet of the files read in this run gives
ThisRunKeys == UNION {KeysOfFile(f) : f \in TemplateFilesRead}

(***************************************************************************)
(* C25: the key set is not shared across calls: in a call of MergeFiles on *)
(* a Merger an earlier call has left keys in, once the run is set up the   *)
(* key set holds the keys of this run's template files and no other, and   *)
(* the rows every other sheet keeps of a file are the rows a Merger with   *)
(* the keys of this run alone keeps.                                       *)
(***************************************************************************)
C25_KeySetNotSharedAcrossCalls ==
    writer # <<>> =>
        LET keys == ThisRunKeys
        IN  /\ templateArticles = keys
            /\ \A i \in 1..Len(fileLog) :
                   LET e == fileLog[i]
                       config == sheetConfigs[e.sheet]
                   IN  (e.outcome = "merged" /\ e.sheet # TemplateSheet) =>
                           e.rows = AfterArticleFilter(config,
                                        HeaderOf(config, BaseRowsOf(e.sheet)),
                                        GetDataRows(fs[e.file].sheets[e.sheet].rows,
                                                    config.HeaderRow),
                                        keys)

\* a call on a Merger left with the key k1 has returned: its own template
\* files gave keys, k1 not among them, and the sheet filtered by keys has
\* lost the row of k1 and kept another
C25_Witness ==
    /\ Succeeded
    /\ ThisRunKeys # {}
    /\ cK1 \notin templateArticles
    /\ \E i \in 1..Len(fileLog) :
          LET e == fileLog[i]
          IN  /\ e.outcome = "merged"
              /\ e.sheet # TemplateSheet
              /\ sheetConfigs[e.sheet].UseTemplateArticles
              /\ ~UsesColumnFilter(sheetConfigs[e.sheet])
              /\ \E k \in 1..Len(RowsBelowHeader(e.file, e.sheet)) :
                     KeyAt(RowsBelowHeader(e.file, e.sheet)[k], KeyColumn(e.sheet)) = cK1
              /\ Len(e.rows) > 0

\* the relay goroutine of merge id has left its range loop
PastRange(id) == gui.relay[id].pc \in {"done", "exit"}

\* every update the worker of merge id has sent, in the order sent
UpdatesSent(id) == [k \in 1..gui.worker[id].sent |-> k]

\* the relay goroutine is past its loop only when MergeFiles has returned and
\* every update sent was received
AllUpdatesRelayed(id) ==
    PastRange(id) =>
        /\ gui.worker[id].pc \in {"assign", "exit"}
        /\ gui.relay[id].got = UpdatesSent(id)

\* the error the main thread is handed or has handled is the one MergeFiles gave
ErrorDelivered(id) ==
    /\ \A k \in 1..Len(gui.mainQueue) :
           (gui.mainQueue[k].kind = "complete" /\ gui.mainQueue[k].id = id) =>
               gui.mainQueue[k].err = gui.worker[id].err
    /\ gui.handled[id].err \in {"none", gui.worker[id].err}
    /\ gui.relay[id].pc = "exit" => gui.doneChan[id] = <<>>

\* the worker is at or before one of its channel operations
AtChannel(id) == gui.worker[id].pc \in {"merge", "sendDone", "close"}

C27_ResultAssignedBeforeCompletion ==
    \A id \in Merges : gui.handled[id].read \in {-1, id}

\* the merges whose worker is inside MergeFiles
InMergeFiles == {id \in Merges : gui.worker[id].pc = "merge"}

\* a step leaves everything but the dialogs as it is
OnlyDialogsChange == [gui' EXCEPT !.dialogs = gui.dialogs] = gui

(***************************************************************************)
(* C28: at most one merge runs at a time on the shared Merger: whatever    *)
(* the clicks on the start button, the answers to the confirmation of a    *)
(* large batch and the completions, no worker is started while the         *)
(* MergeFiles call of an earlier worker is in progress, and a start        *)
(* request made while mergeInProgress is true changes no state.            *)
(***************************************************************************)
C28_OneMergeAtATime ==
    /\ [](Cardinality(InMergeFiles) <= 1)
    /\ [][gui'.started # gui.started => InMergeFiles = {}]_vars
    /\ [][(gui.mergeInProgress /\ OnStartMerge(MaxMerges)) => OnlyDialogsChange]_vars

\* the second merge is running, started after the first was handled, and a
\* click on the start button during it has only brought the notice up
C28_Witness ==
    /\ gui.started = 2
    /\ gui.mergeInProgress
    /\ InMergeFiles = {2}
    /\ gui.worker[1].pc = "assign"
    /\ TopDialog(gui) = "info"

\* the indices i/n announced for sheet s, in the order announced
IndicesAnnounced(s) == [k \in 1..Len(ProgressOf(s)) |-> ProgressOf(s)[k].index]

(***************************************************************************)
(* C29: in every MergeResult MergeFiles returns, ProcessedSheets is the    *)
(* number of entries of sheetConfigs with Enabled = true and the keys of   *)
(* SheetStats are the enabled sheet names, each enabled sheet processed    *)
(* once (its files announced once each, in order); an entry that is not    *)
(* enabled never gets an output sheet, a SheetStats entry or a progress    *)
(* update.                                                                 *)
(***************************************************************************)
C29_ProcessedSheetsAreTheEnabledOnes ==
    /\ Succeeded =>
           LET r == ret[1].result[1]
           IN  /\ r.ProcessedSheets = Cardinality(EnabledSheets)
               /\ DOMAIN r.SheetStats = EnabledSheets
               /\ OutputSheets \ {"Sheet1"} = EnabledSheets
               /\ \A s \in EnabledSheets :
                      IndicesAnnounced(s) = [k \in 1..Len(AllFiles) |-> k]
    /\ \A s \in DOMAIN sheetConfigs \ EnabledSheets :
           /\ s \notin OutputSheets
           /\ s \notin DOMAIN result.SheetStats
           /\ ProgressOf(s) = <<>>
           /\ EntriesOf(s) = <<>>
    /\ result.ProcessedSheets = Cardinality(DOMAIN result.SheetStats)

\* a result is returned for a configuration of the template sheet, enabled,
\* and another sheet, not enabled: one sheet is processed, every file of it
\* announced once
C29_Witness ==
    /\ Succeeded
    /\ Len(filePaths) > 0
    /\ DOMAIN sheetConfigs = SheetNames
    /\ sheetConfigs[TemplateSheet].Enabled
    /\ ~sheetConfigs["Data"].Enabled
    /\ ret[1].result[1].ProcessedSheets = 1
    /\ Len(progress) = Len(AllFiles)

\* 0-based position in the sheet of the first cell of row 2 that holds the
\* brand header, -1 when there is none
BrandSheetColumn(rows) ==
    LET found == IF Len(rows) < 2 THEN {}
                 ELSE {i \in 1..Len(rows[2]) : rows[2][i] = cBrandHeader}
    IN  IF found = {} THEN -1 ELSE Min(found) - 1

(***************************************************************************)
(* C30: FindBrandColumnInFirstRows returns the 0-based position in the     *)
(* sheet of the cell of row 2 that holds the brand header, or -1 when      *)
(* there is none, also when cells to the left of it are empty, so that the *)
(* index, used as FilterColumn, is the column of the data rows the         *)
(* column-value filter looks at.                                           *)
(***************************************************************************)
C30_ReturnsSheetColumnOfBrandCell ==
    Applied("FindBrandColumnInFirstRows") => out[1].index = BrandSheetColumn(call.rows)

====
